---- MODULE Spec2Model ----
(***************************************************************************)
(* Model of src/script.js: the TTL cache over localStorage, fetchAPI (the  *)
(* fetch with cache fallback), its callers loadNews and loadSentiment, and *)
(* the signal pipeline loadCoins -> generateSignal -> callAI/localSignal   *)
(* -> STATE.signals, with the indicators it computes, and loadChart with   *)
(* the click on a coin card that starts it.                                *)
(*                                                                         *)
(* JavaScript runs one task at a time: an async function runs without      *)
(* interruption up to an await of a network call.  Each action below is    *)
(* one such uninterrupted stretch of code.                                 *)
(*                                                                         *)
(* Numbers that the code computes in floating point are exact rationals    *)
(* here (records [n, d] in lowest terms, d > 0).                           *)
(***************************************************************************)
EXTENDS Integers, Sequences, FiniteSets, TLC

VARIABLES
    online,        \* navigator.onLine
    now,           \* Date.now(), in ms
    localStorage,  \* storage key -> stored text, or null
    toast,         \* the text last shown by toast()
    news,          \* the loadNews call: its position and what fetchAPI gave it
    senti,         \* the loadSentiment call: its position
    coins,         \* STATE.coins
    signals,       \* STATE.signals: coin id -> stored signal, or undefined
    lc,            \* the loadCoins call in flight
    run,           \* the generateSignal calls in flight, by slot
    fn,            \* a pure function's arguments and result (SpecPure)
    done,          \* what the generateSignal call that ended last did
    chart          \* STATE.chart and the loadChart calls in flight

vars ==
    <<online, now, localStorage, toast, news, senti, coins, signals, lc, run, fn, done, chart>>

----------------------------------------------------------------------------
(* Bounds of the model *)

\* the clock is read at whole TTLs after the start plus 0..MaxSkew ms
MaxSkew == 1
\* generateSignal calls in flight at once
MaxRuns == 2

----------------------------------------------------------------------------
(* CONFIG *)

CACHE_TTL == 60000

----------------------------------------------------------------------------
(* Numbers: exact rationals *)

RECURSIVE GCD(_, _)
GCD(a, b) == IF b = 0 THEN a ELSE GCD(b, a % b)
Abs(x) == IF x < 0 THEN -x ELSE x

\* n/d in lowest terms, d > 0
Rat(n, d) ==
    LET g == GCD(Abs(n), Abs(d))
        s == IF d < 0 THEN -1 ELSE 1
    IN  [n |-> (s * n) \div g, d |-> (s * d) \div g]
Num(k) == [n |-> k, d |-> 1]
RatAdd(a, b) == Rat(a.n * b.d + b.n * a.d, a.d * b.d)
RatSub(a, b) == Rat(a.n * b.d - b.n * a.d, a.d * b.d)
RatMul(a, b) == Rat(a.n * b.n, a.d * b.d)
RatDiv(a, b) == Rat(a.n * b.d, a.d * b.n)
RatLt(a, b) == a.n * b.d < b.n * a.d

\* Math.round(x): the integer nearest to x, a half rounding up
MathRound(x) == (2 * x.n + x.d) \div (2 * x.d)

\* x.toFixed(1), for x >= 0
toFixed1(x) ==
    LET tenths == (20 * x.n + x.d) \div (2 * x.d)
    IN  ToString(tenths \div 10) \o "." \o ToString(tenths % 10)

----------------------------------------------------------------------------
(* JavaScript values *)

\* null and undefined are records of three fields, so that no array of the
\* model (one or two elements) and no object is of their shape
null == [type |-> "null", falsy |-> TRUE, nullish |-> TRUE]
undefined == [type |-> "undefined", falsy |-> TRUE, nullish |-> TRUE]

\* if (c): the payloads of this model are null, objects and arrays, and of
\* these only null is falsy
Truthy(v) == v # null /\ v # undefined

\* JSON.stringify of a value that JSON.parse produced, and JSON.parse of such
\* a text: the text denotes the value.  A text that is not JSON has no json
\* field, and JSON.parse throws on it.
JSONstringify(v) == [json |-> v]
IsJSON(s) == "json" \in DOMAIN s
JSONparse(s) == s.json
NotJSON == [garbage |-> TRUE]

----------------------------------------------------------------------------
(* cache: two localStorage items per key, `cache_${k}` and `cache_${k}_meta`. *)
(* A key is the sequence of the words of its name.                          *)

DataKey(k) == <<"cache">> \o k
MetaKey(k) == <<"cache">> \o k \o <<"meta">>

NewsKey == <<"news">>
FngKey == <<"fng">>
GasKey == <<"gas">>
CoinsKey == <<"coins">>
ChartKey(id) == <<"chart", id>>

\* a TTL test that already drops an entry whose age is exactly the TTL
Stale_AtTTL(age) == age >= CACHE_TTL

\* the TTL test of cache.get: stale when the age exceeds the TTL
Stale(age) == age > CACHE_TTL

cacheGet(ls, k, t) ==
    LET data == ls[DataKey(k)]
        meta == ls[MetaKey(k)]
    IN  IF data = null \/ meta = null THEN null
        ELSE IF Stale(t - JSONparse(meta).t) THEN null
        ELSE JSONparse(data)

cacheSet(ls, k, v, t) ==
    [ls EXCEPT ![DataKey(k)] = JSONstringify(v),
               ![MetaKey(k)] = JSONstringify([t |-> t])]

----------------------------------------------------------------------------
(* The network: what a fetch() can come back with.  rejected: the promise  *)
(* rejects (the 5 s AbortSignal.timeout, or no route); else a response     *)
(* with a status and a body text.                                          *)

Rejected == [rejected |-> TRUE, status |-> 0, body |-> NotJSON]
Response(status, body) == [rejected |-> FALSE, status |-> status, body |-> body]

\* r.ok
Ok(r) == r.status \in 200..299

----------------------------------------------------------------------------
(* fetchAPI(url, name).  Its result: threw (with error, the message) or a  *)
(* value; store, the localStorage it leaves; notice, the toast it showed   *)
(* (<<>> when none); path, the branch that produced the result.            *)

Thrown(msg, ls, path) ==
    [threw |-> TRUE, value |-> undefined, error |-> msg, store |-> ls,
     notice |-> <<>>, path |-> path]
Returned(v, ls, notice, path) ==
    [threw |-> FALSE, value |-> v, error |-> "", store |-> ls,
     notice |-> notice, path |-> path]

\* the branch taken when !navigator.onLine
fetchAPIOffline(ls, name, t) ==
    LET c == cacheGet(ls, name, t)
    IN  IF Truthy(c) THEN Returned(c, ls, <<"Using offline data">>, "offline")
        ELSE Thrown("Offline", ls, "offline")

\* the message of the error the try block throws on response r
FetchError(r) ==
    IF r.rejected THEN "The operation timed out"
    ELSE IF ~Ok(r) THEN ToString(r.status)
    ELSE "Unexpected token"

\* a store that writes the payload and leaves the timestamp as it was
StoreFresh_NoMeta(ls, name, d, t) == [ls EXCEPT ![DataKey(name)] = JSONstringify(d)]

\* the localStorage a successful network call leaves
StoreFresh(ls, name, d, t) == cacheSet(ls, name, d, t)

\* the try/catch, once the network call has come back with r
fetchAPIOnline(ls, name, t, r) ==
    IF ~r.rejected /\ Ok(r) /\ IsJSON(r.body)
    THEN LET d == JSONparse(r.body)
         IN  Returned(d, StoreFresh(ls, name, d, t), <<>>, "network")
    ELSE LET c == cacheGet(ls, name, t)
         IN  IF Truthy(c) THEN Returned(c, ls, <<"Using cached data">>, "fallback")
             ELSE Thrown(FetchError(r), ls, "fallback")

\* the toast text after a fetchAPI result
Shown(res, old) == IF res.notice = <<>> THEN old ELSE res.notice[1]

\* what a caller of fetchAPI holds of a result: the value returned or the
\* fact that it threw; and for the record, the branch of fetchAPI it came
\* from and the time it came at
Got(res, t) == [threw |-> res.threw, value |-> res.value, path |-> res.path, at |-> t]
NoResult == [threw |-> FALSE, value |-> undefined, path |-> "none", at |-> 0]

IdleRun == [pc |-> "idle"]
Slots == 1..MaxRuns

----------------------------------------------------------------------------
(* The clock and the connectivity *)

\* the instants at which the model looks at the clock: around the start and
\* around one TTL later
Instants == {a + b * CACHE_TTL : a \in 0..MaxSkew, b \in {0, 1}}

Tick ==
    /\ \E t \in Instants : t > now /\ now' = t
    /\ UNCHANGED <<online, localStorage, toast, news, senti, coins, signals, lc, run, fn, done, chart>>

\* more than one TTL passes at once
Expire ==
    /\ \E t \in Instants : t > now + CACHE_TTL /\ now' = t
    /\ UNCHANGED <<online, localStorage, toast, news, senti, coins, signals, lc, run, fn, done, chart>>

SetOnline ==
    /\ online' = ~online
    /\ UNCHANGED <<now, localStorage, toast, news, senti, coins, signals, lc, run, fn, done, chart>>

----------------------------------------------------------------------------
(* loadNews.  news.got is what fetchAPI gave the call; the #news view is   *)
(* NewsView of it.                                                         *)

News1 == [results |-> <<[title |-> "Rally", source_domain |-> "a.example"]>>]
NewsPayloads == {News1, null}
NewsResponses ==
    {Rejected, Response(500, NotJSON), Response(200, NotJSON)}
        \cup {Response(200, JSONstringify(p)) : p \in NewsPayloads}

Min(a, b) == IF a < b THEN a ELSE b

\* the #news view after the try/catch of loadNews
NewsView(got) ==
    IF got.threw \/ "results" \notin DOMAIN got.value THEN [offline |-> TRUE]
    ELSE LET first5 == SubSeq(got.value.results, 1, Min(5, Len(got.value.results)))
         IN  [items |-> [i \in DOMAIN first5 |->
                            <<first5[i].title, first5[i].source_domain>>]]

\* what loadNews leaves once fetchAPI has given res
NewsDone(res) ==
    /\ localStorage' = res.store
    /\ toast' = Shown(res, toast)
    /\ news' = [pc |-> "idle", got |-> Got(res, now)]

LoadNewsStart ==
    /\ news.pc = "idle"
    /\ IF online
       THEN /\ news' = [news EXCEPT !.pc = "net"]
            /\ UNCHANGED <<localStorage, toast>>
       ELSE NewsDone(fetchAPIOffline(localStorage, NewsKey, now))
    /\ UNCHANGED <<online, now, senti, coins, signals, lc, run, fn, done, chart>>

LoadNewsReturn ==
    /\ news.pc = "net"
    /\ \E r \in NewsResponses : NewsDone(fetchAPIOnline(localStorage, NewsKey, now, r))
    /\ UNCHANGED <<online, now, senti, coins, signals, lc, run, fn, done, chart>>

----------------------------------------------------------------------------
(* loadSentiment: two fetchAPI calls in a row, 'fng' then 'gas'.  senti is *)
(* the position of the call; what it writes to #fng and #gas is not kept.  *)

Fng1 == [data |-> <<[value |-> "50"]>>]
Gas1 == [blockPrices |-> <<[estimatedPrices |-> <<[price |-> Rat(25, 2)]>>]>>]
FngResponses == {Rejected, Response(200, JSONstringify(Fng1))}
GasResponses == {Response(503, NotJSON), Response(200, JSONstringify(Gas1))}

\* fng.data[0].value can be read
FngShape(v) == "data" \in DOMAIN v /\ Len(v.data) > 0

\* the rest of loadSentiment once the 'fng' fetchAPI has given res1: unless
\* that threw, it calls fetchAPI for 'gas', which waits for the network when
\* online and answers at once from the cache when offline
SentiAfterFng(res1) ==
    IF res1.threw \/ ~FngShape(res1.value) \/ online
    THEN /\ senti' = [pc |-> IF res1.threw \/ ~FngShape(res1.value) THEN "idle" ELSE "gas"]
         /\ localStorage' = res1.store
         /\ toast' = Shown(res1, toast)
    ELSE LET res2 == fetchAPIOffline(res1.store, GasKey, now)
         IN  /\ senti' = [pc |-> "idle"]
             /\ localStorage' = res2.store
             /\ toast' = Shown(res2, Shown(res1, toast))

LoadSentimentStart ==
    /\ senti.pc = "idle"
    /\ IF online
       THEN /\ senti' = [pc |-> "fng"]
            /\ UNCHANGED <<localStorage, toast>>
       ELSE SentiAfterFng(fetchAPIOffline(localStorage, FngKey, now))
    /\ UNCHANGED <<online, now, news, coins, signals, lc, run, fn, done, chart>>

LoadSentimentFngReturn ==
    /\ senti.pc = "fng"
    /\ \E r \in FngResponses : SentiAfterFng(fetchAPIOnline(localStorage, FngKey, now, r))
    /\ UNCHANGED <<online, now, news, coins, signals, lc, run, fn, done, chart>>

LoadSentimentGasReturn ==
    /\ senti.pc = "gas"
    /\ \E r \in GasResponses :
          LET res2 == fetchAPIOnline(localStorage, GasKey, now, r)
          IN  /\ senti' = [pc |-> "idle"]
              /\ localStorage' = res2.store
              /\ toast' = Shown(res2, toast)
    /\ UNCHANGED <<online, now, news, coins, signals, lc, run, fn, done, chart>>

----------------------------------------------------------------------------
(* CALCULATE INDICATORS.  prices is a sequence of numbers; prices[i] of the *)
(* code is prices[i + 1] here.                                              *)

\* a loop that adds every change to its side as it is: losses += change
RECURSIVE RSILoop_Signed(_, _, _, _)
RSILoop_Signed(prices, i, gains, losses) ==
    IF i >= Len(prices) THEN <<gains, losses>>
    ELSE LET change == RatSub(prices[i + 1], prices[i])
         IN  IF RatLt(Num(0), change)
             THEN RSILoop_Signed(prices, i + 1, RatAdd(gains, change), losses)
             ELSE RSILoop_Signed(prices, i + 1, gains, RatAdd(losses, change))

\* the loop of calculateRSI from index i on: <<gains, losses>>
RECURSIVE RSILoop(_, _, _, _)
RSILoop(prices, i, gains, losses) ==
    IF i >= Len(prices) THEN <<gains, losses>>
    ELSE LET change == RatSub(prices[i + 1], prices[i])
         IN  IF RatLt(Num(0), change)
             THEN RSILoop(prices, i + 1, RatAdd(gains, change), losses)
             ELSE RSILoop(prices, i + 1, gains, RatSub(losses, change))

\* an RSI over one change more than period, where the series has it
calculateRSI_Wide(prices, period) ==
    IF Len(prices) < period + 1 THEN Num(50)
    ELSE LET from == IF Len(prices) > period + 1 THEN Len(prices) - period - 1
                     ELSE Len(prices) - period
             gl == RSILoop(prices, from, Num(0), Num(0))
             avgGain == RatDiv(gl[1], Num(period))
             avgLoss == RatDiv(gl[2], Num(period))
         IN  IF avgLoss = Num(0) THEN Num(100)
             ELSE LET rs == RatDiv(avgGain, avgLoss)
                  IN  RatSub(Num(100), RatDiv(Num(100), RatAdd(Num(1), rs)))

calculateRSI(prices, period) ==
    IF Len(prices) < period + 1 THEN Num(50)
    ELSE LET gl == RSILoop(prices, Len(prices) - period, Num(0), Num(0))
             avgGain == RatDiv(gl[1], Num(period))
             avgLoss == RatDiv(gl[2], Num(period))
         IN  IF avgLoss = Num(0) THEN Num(100)
             ELSE LET rs == RatDiv(avgGain, avgLoss)
                  IN  RatSub(Num(100), RatDiv(Num(100), RatAdd(Num(1), rs)))

\* the default of calculateRSI's period parameter
RSIPeriod == 14

\* the loop of calculateEMA: emas holds the values that ema has had, the
\* one before the loop first, and the loop is at index Len(emas)
RECURSIVE EMALoop(_, _, _)
EMALoop(prices, emas, multiplier) ==
    IF Len(emas) >= Len(prices) THEN emas[Len(emas)]
    ELSE LET i == Len(emas)
             ema == emas[i]
         IN  EMALoop(prices,
                     Append(emas, RatAdd(RatMul(RatSub(prices[i + 1], ema), multiplier), ema)),
                     multiplier)

\* an average that is 0 while there are fewer prices than period
calculateEMA_ZeroShort(prices, period) ==
    IF Len(prices) < period THEN Num(0)
    ELSE EMALoop(prices, <<prices[1]>>, Rat(2, period + 1))

calculateEMA(prices, period) ==
    IF Len(prices) < period THEN prices[Len(prices)]
    ELSE EMALoop(prices, <<prices[1]>>, Rat(2, period + 1))

calculateMACD(prices) ==
    LET ema12 == calculateEMA(prices, 12)
        ema26 == calculateEMA(prices, 26)
        macd == RatSub(ema12, ema26)
        signal == calculateEMA(<<macd>>, 9)
    IN  [histogram |-> RatSub(macd, signal)]

\* bollinger_bands, which nothing reads, is left out
calculateIndicators(prices) ==
    [rsi |-> calculateRSI(prices, RSIPeriod), macd |-> calculateMACD(prices)]

----------------------------------------------------------------------------
(* LOCAL SIGNAL LOGIC *)

\* a rule whose thresholds are inclusive
Rule_Inclusive(rsi) ==
    IF ~RatLt(Num(30), rsi) THEN [decision |-> "Buy", confidence |-> Num(75)]
    ELSE IF ~RatLt(rsi, Num(70)) THEN [decision |-> "Sell", confidence |-> Num(75)]
    ELSE [decision |-> "Hold", confidence |-> Num(50)]

\* a rule that is surer of its Buy
Rule_Loud(rsi) ==
    IF RatLt(rsi, Num(30)) THEN [decision |-> "Buy", confidence |-> Num(85)]
    ELSE IF RatLt(Num(70), rsi) THEN [decision |-> "Sell", confidence |-> Num(75)]
    ELSE [decision |-> "Hold", confidence |-> Num(50)]

\* let decision = 'Hold', confidence = 50; if (rsi < 30) ... else if (rsi > 70) ...
Rule(rsi) ==
    IF RatLt(rsi, Num(30)) THEN [decision |-> "Buy", confidence |-> Num(75)]
    ELSE IF RatLt(Num(70), rsi) THEN [decision |-> "Sell", confidence |-> Num(75)]
    ELSE [decision |-> "Hold", confidence |-> Num(50)]

localSignal(coin, ind) ==
    LET rsi == ind.rsi
        price == coin.current_price
        rule == Rule(rsi)
    IN  [decision |-> rule.decision,
         confidence |-> rule.confidence,
         entry_price |-> price,
         stoploss |-> RatMul(price, Rat(99, 100)),
         take_profit |-> RatMul(price, IF rule.decision = "Buy" THEN Rat(102, 100)
                                                                ELSE Rat(98, 100)),
         explanation |-> "RSI: " \o toFixed1(rsi)]

----------------------------------------------------------------------------
(* CALL HUGGINGFACE AI.  A reply text is a sequence of tokens: words,      *)
(* punctuation, quoted strings and numerals.                               *)

\* the quoted strings and what they denote
StringLiterals ==
    ("\"decision\"" :> "decision") @@ ("\"confidence\"" :> "confidence")
    @@ ("\"entry\"" :> "entry") @@ ("\"stoploss\"" :> "stoploss")
    @@ ("\"note\"" :> "note") @@ ("\"Buy\"" :> "Buy") @@ ("\"Sell\"" :> "Sell")
    @@ ("\"Maybe\"" :> "Maybe") @@ ("\"n/a\"" :> "n/a") @@ ("\"Hold\"" :> "Hold")
    @@ ("\"entry_price\"" :> "entry_price")
\* the numerals 0..200 and the numbers they denote
NumeralValue == [tok \in {ToString(n) : n \in 0..200} |-> CHOOSE n \in 0..200 : ToString(n) = tok]
IsString(tok) == tok \in DOMAIN StringLiterals
IsNumeral(tok) == tok \in DOMAIN NumeralValue
ValueOf(tok) == IF IsString(tok) THEN StringLiterals[tok] ELSE Num(NumeralValue[tok])

\* text.match(/\{[\s\S]*\}/): from the first "{" to the last "}" after it,
\* or null.  The result is <<>> (no match) or <<block>>.
Positions(text, tok) == {i \in DOMAIN text : text[i] = tok}
SetMin(S) == CHOOSE x \in S : \A y \in S : x <= y
SetMax(S) == CHOOSE x \in S : \A y \in S : x >= y
Match(text) ==
    LET open == Positions(text, "{")
        close == Positions(text, "}")
    IN  IF open = {} \/ \A j \in close : j < SetMin(open) THEN <<>>
        ELSE <<SubSeq(text, SetMin(open), SetMax(close))>>

\* JSON.parse of a block of tokens, for the objects of this model: a flat
\* object { key : value , ... } of strings and numerals.  WellFormed is false
\* where JSON.parse throws.
Inner(block) == SubSeq(block, 2, Len(block) - 1)
WellFormed(block) ==
    /\ Len(block) >= 2
    /\ block[1] = "{" /\ block[Len(block)] = "}"
    /\ LET in == Inner(block)
       IN  \/ in = <<>>
           \/ /\ Len(in) % 4 = 3
              /\ \A i \in DOMAIN in :
                    CASE i % 4 = 1 -> IsString(in[i])
                      [] i % 4 = 2 -> in[i] = ":"
                      [] i % 4 = 3 -> IsString(in[i]) \/ IsNumeral(in[i])
                      [] OTHER -> in[i] = ","
ParseObject(block) ==
    LET in == Inner(block)
        n == (Len(in) + 1) \div 4
        key(j) == StringLiterals[in[4 * j - 3]]
        last(k) == SetMax({j \in 1..n : key(j) = k})
    IN  [k \in {key(j) : j \in 1..n} |-> ValueOf(in[4 * last(k) - 1])]

\* the prompt that callAI sends
Prompt(coin, ind) ==
    [data |-> [coin |-> coin.name, price |-> coin.current_price,
               rsi |-> ind.rsi, macd |-> ind.macd.histogram],
     required |-> [decision |-> "Buy|Sell|Hold", confidence |-> "0-100",
                   entry |-> "number", stoploss |-> "number"]]

\* callAI once the request has come back with r: signal is the value it
\* returns (an object, or null), notice the toast it shows (<<>>: none)
callAI(r) ==
    IF r.rejected THEN [signal |-> null, notice |-> <<>>]
    ELSE IF r.status = 429 THEN [signal |-> null, notice |-> <<"AI rate limited">>]
    ELSE IF ~Ok(r) \/ ~IsJSON(r.body) THEN [signal |-> null, notice |-> <<>>]
    ELSE LET data == JSONparse(r.body)
             text == IF Len(data) > 0 /\ "generated_text" \in DOMAIN data[1]
                     THEN <<data[1].generated_text>> ELSE <<>>
             match == IF text = <<>> THEN <<>> ELSE Match(text[1])
         IN  IF match # <<>> /\ WellFormed(match[1])
             THEN [signal |-> ParseObject(match[1]), notice |-> <<>>]
             ELSE [signal |-> null, notice |-> <<>>]

----------------------------------------------------------------------------
(* What the price API and the advisory model can answer *)

Bitcoin == [id |-> "bitcoin", symbol |-> "btc", name |-> "Bitcoin", current_price |-> Num(100)]
Ethereum == [id |-> "ethereum", symbol |-> "eth", name |-> "Ethereum", current_price |-> Num(250)]
Market1 == <<Bitcoin, Ethereum>>
\* a list with one coin
Market2 == <<Bitcoin>>
MarketResponses == {Rejected, Response(200, JSONstringify(Market1))}
OneCoinResponses == {Rejected, Response(200, JSONstringify(Market2))}

\* the price history at 5-minute granularity, as [time in minutes, price]:
\* 14 points at 200 and a last one at 187 (RSI 0)
Falling == [prices |-> [i \in 1..15 |-> <<5 * i, IF i < 15 THEN 200 ELSE 187>>]]
ChartPayloads == {Falling}

\* the price history at 15-minute granularity: 5 points at 200
Quarter == [prices |-> [i \in 1..5 |-> <<15 * i, 200>>]]
CandlePayloads == {Quarter}
CandleResponses == {Rejected} \cup {Response(200, JSONstringify(p)) : p \in CandlePayloads}
ChartResponses == {Rejected} \cup {Response(200, JSONstringify(p)) : p \in ChartPayloads}

\* reply texts: a block with the four required fields inside free text; a
\* well-formed block without them; a block with the fields and values out of
\* range; no block; a block that is not JSON; the block followed by text
\* that holds braces
Block(decision, confidence) ==
    <<"{", "\"decision\"", ":", decision, ",", "\"confidence\"", ":", confidence, ",",
      "\"entry\"", ":", "101", ",", "\"stoploss\"", ":", "99", "}">>
ReplyValid == <<"Sure", ":">> \o Block("\"Buy\"", "90") \o <<"Good", "luck">>
ReplyNoFields == <<"{", "\"note\"", ":", "\"n/a\"", "}">>
ReplyRange == Block("\"Maybe\"", "150")
ReplyNoBlock == <<"I", "cannot", "say">>
ReplyBroken == <<"{", "decision", ":", "Buy", "}">>
ReplyTwo == Block("\"Sell\"", "60") \o <<"see", "{", "docs", "}">>
\* a block with confidence 80; a block whose entry_price is a string
Reply80 == Block("\"Hold\"", "80")
ReplyQuoted ==
    <<"{", "\"decision\"", ":", "\"Buy\"", ",", "\"confidence\"", ":", "90", ",",
      "\"entry_price\"", ":", "\"n/a\"", "}">>
Replies ==
    {ReplyValid, ReplyNoFields, ReplyRange, ReplyNoBlock, ReplyBroken, ReplyTwo, Reply80,
     ReplyQuoted}
Generated(text) == Response(200, JSONstringify(<<[generated_text |-> text]>>))
RateLimited == Response(429, NotJSON)
AIResponses ==
    {Rejected, RateLimited, Response(503, NotJSON), Response(200, NotJSON),
     Response(200, JSONstringify(<<>>))} \cup {Generated(t) : t \in Replies}
\* a few of them: no answer, 429, the valid block, the block with confidence 80
CoreAIResponses == {Rejected, RateLimited, Generated(ReplyValid), Generated(Reply80)}

----------------------------------------------------------------------------
(* GENERATE SIGNAL.  A call in flight is [pc, coin, ...]: pc = "net" while *)
(* the price request is out, "ai" while the advisory request is out (ind:  *)
(* the indicators; sent: the advisory requests sent so far).               *)

\* data.prices.map(p => p[1]) can be evaluated
HasPrices(data) == "prices" \in DOMAIN data
Prices(data) == [i \in DOMAIN data.prices |-> Num(data.prices[i][2])]

\* calculateIndicators(data.prices.map(p => p[1])), computed once for each
\* answer of the price API
Indicators == [data \in ChartPayloads |-> calculateIndicators(Prices(data))]
IndicatorsOf(data) ==
    IF data \in DOMAIN Indicators THEN Indicators[data] ELSE calculateIndicators(Prices(data))

\* a call that goes on without price data, with indicators that say nothing
AfterPrices_Blind(coin, res) ==
    [pc |-> "ai", coin |-> coin, sent |-> 1,
     ind |-> IF res.threw \/ ~HasPrices(res.value)
             THEN [rsi |-> Num(50), macd |-> [histogram |-> Num(0)]]
             ELSE IndicatorsOf(res.value)]

\* generateSignal from the result res of its fetchAPI up to the request that
\* callAI sends; a throw ends the call in the catch
AfterPrices(coin, res) ==
    IF res.threw \/ ~HasPrices(res.value) THEN IdleRun
    ELSE [pc |-> "ai", coin |-> coin, ind |-> IndicatorsOf(res.value), sent |-> 1]

\* callAI on each answer of the model
Advice == [r \in AIResponses |-> callAI(r)]

\* a call that asks again when it is told 429
AfterAdvisory_Retry(rec, r) ==
    IF r # Rejected /\ r.status = 429 THEN [rec EXCEPT !.sent = @ + 1] ELSE IdleRun

\* the call after the advisory request has come back: it is over
AfterAdvisory(rec, r) == IdleRun

\* {...signal, symbol: coin.symbol}
WithSymbol(signal, coin) == ("symbol" :> coin.symbol) @@ signal

\* the signal generateSignal stores once callAI has returned out
Fused(coin, ind, out) ==
    IF Truthy(out.signal) THEN out.signal ELSE localSignal(coin, ind)

\* a store keyed by the other asset
StoreSignal_Cross(sigs, coin, signal) ==
    [sigs EXCEPT ![CHOOSE id \in DOMAIN sigs : id # coin.id] = WithSymbol(signal, coin)]

\* a store that keeps the entry an asset already has
StoreSignal_KeepFirst(sigs, coin, signal) ==
    IF sigs[coin.id] = undefined THEN [sigs EXCEPT ![coin.id] = WithSymbol(signal, coin)]
    ELSE sigs

\* STATE.signals.set(coin.id, ...)
StoreSignal(sigs, coin, signal) == [sigs EXCEPT ![coin.id] = WithSymbol(signal, coin)]

\* v is one of the strings a reply can hold (and not a number)
Texts == {ToString(StringLiterals[t]) : t \in DOMAIN StringLiterals}
IsText(v) == ToString(v) \in Texts

\* renderSignals throws a TypeError: s.entry_price?.toFixed(2) where the
\* entry_price of a stored signal is a string
RenderThrows(sigs) ==
    \E id \in DOMAIN sigs :
        /\ sigs[id] # undefined
        /\ "entry_price" \in DOMAIN sigs[id]
        /\ IsText(sigs[id].entry_price)

\* signal.confidence > 80 (false on undefined, and on a string that is no
\* numeral)
Confident(signal) ==
    /\ "confidence" \in DOMAIN signal
    /\ ~IsText(signal.confidence)
    /\ RatLt(Num(80), signal.confidence)

\* what a call does from STATE.signals.set on, sigs being the store it
\* leaves: set; renderSignals; playAlert if confident; a throw of
\* renderSignals ends in the catch, which warns on the console
StoreEffects(sigs, signal) ==
    IF RenderThrows(sigs) THEN <<"set", "warn">>
    ELSE IF Confident(signal) THEN <<"set", "render", "alert">>
    ELSE <<"set", "render">>

\* done: what the call that ended last did, and whether a
\* call started after it for the same asset had stored before it ended
NoneDone == [effects |-> <<>>, overtaken |-> FALSE]
Warned(overtaken) == [effects |-> <<"warn">>, overtaken |-> overtaken]

\* Bookkeeping of the order of starts.  A call in flight carries after, the
\* slots of the calls for the same asset that were in flight when it
\* started, and overtaken.
InFlight(runs, id) == {t \in Slots : runs[t].pc # "idle" /\ runs[t].coin.id = id}
Keep(rec, next) ==
    IF next.pc = "idle" THEN next
    ELSE [after |-> rec.after, overtaken |-> rec.overtaken] @@ next

\* the calls in flight once the call in slot s has moved on to next, having
\* stored a signal or not
Moved(runs, s, next, stored) ==
    [t \in Slots |->
        IF t = s THEN Keep(runs[s], next)
        ELSE IF runs[t].pc = "idle" \/ next.pc # "idle" THEN runs[t]
        ELSE [runs[t] EXCEPT
                 !.after = @ \ {s},
                 !.overtaken = @ \/ (stored /\ t \in runs[s].after)]]

\* a failure of one call that ends all the calls in flight
RunsAfterPrices_Abort(runs, s, res) ==
    IF res.threw THEN [t \in Slots |-> IdleRun]
    ELSE Moved(runs, s, AfterPrices(runs[s].coin, res), FALSE)

\* the calls in flight once fetchAPI has given res to the call in slot s
RunsAfterPrices(runs, s, res) == Moved(runs, s, AfterPrices(runs[s].coin, res), FALSE)

\* the price request of the call in slot s comes back with r
PricesReturn(s, r) ==
    /\ run[s].pc = "net"
    /\ LET res == fetchAPIOnline(localStorage, ChartKey(run[s].coin.id), now, r)
       IN  /\ localStorage' = res.store
           /\ toast' = Shown(res, toast)
           /\ run' = RunsAfterPrices(run, s, res)
           /\ done' = IF AfterPrices(run[s].coin, res).pc = "idle"
                      THEN Warned(run[s].overtaken) ELSE done
    /\ UNCHANGED <<online, now, news, senti, coins, signals, lc, fn, chart>>

\* the advisory request of the call in slot s comes back with r
AdvisoryReturn(s, r) ==
    /\ run[s].pc = "ai"
    /\ LET out == Advice[r]
           signal == Fused(run[s].coin, run[s].ind, out)
           sigs == StoreSignal(signals, run[s].coin, signal)
       IN  /\ signals' = sigs
           /\ toast' = IF out.notice = <<>> THEN toast ELSE out.notice[1]
           /\ run' = Moved(run, s, AfterAdvisory(run[s], r), TRUE)
           /\ done' = [effects |-> StoreEffects(sigs, signal), overtaken |-> run[s].overtaken]
    /\ UNCHANGED <<online, now, localStorage, news, senti, coins, lc, fn, chart>>

RunPricesReturn == \E s \in Slots : \E r \in ChartResponses : PricesReturn(s, r)
RunAdvisoryReturn == \E s \in Slots : \E r \in AIResponses : AdvisoryReturn(s, r)
CoreAdvisoryReturn == \E s \in Slots : \E r \in CoreAIResponses : AdvisoryReturn(s, r)

----------------------------------------------------------------------------
(* LOAD COINS *)

First(n, seq) == SubSeq(seq, 1, Min(n, Len(seq)))

\* generateSignal(c) up to its first wait: online, the price request goes
\* out; offline, fetchAPI answers at once from the cache and the call runs on
\* to the advisory request, or ends in the catch
StartFetch(c, ls) == fetchAPIOffline(ls, ChartKey(c.id), now)
StartRun(c, ls) ==
    IF online THEN [pc |-> "net", coin |-> c] ELSE AfterPrices(c, StartFetch(c, ls))

\* the toast text after the calls for cs[i..] have started
RECURSIVE ToastAfter(_, _, _, _)
ToastAfter(cs, i, ls, t) ==
    IF i > Len(cs) THEN t
    ELSE ToastAfter(cs, i + 1, ls, IF online THEN t ELSE Shown(StartFetch(cs[i], ls), t))

\* the calls in flight once the records in started have each taken the
\* lowest free slot
RECURSIVE Place(_, _, _)
Place(runs, started, i) ==
    IF i > Len(started) THEN runs
    ELSE LET free == SetMin({s \in Slots : runs[s].pc = "idle"})
             rec == Keep([after |-> InFlight(runs, started[i].coin.id), overtaken |-> FALSE],
                         started[i])
         IN  Place([runs EXCEPT ![free] = rec], started, i + 1)

\* the calls that coins.slice(0, 5).forEach(c => generateSignal(c)) leaves in flight
Spawned(cs, ls) ==
    SelectSeq([i \in DOMAIN First(5, cs) |-> StartRun(cs[i], ls)], LAMBDA rec : rec.pc # "idle")

\* done once the calls for cs have started: those that end at once (offline
\* with no usable price data in the cache) end in the catch
DoneAfter(cs, ls, d) ==
    LET failed == SelectSeq(cs, LAMBDA c : StartRun(c, ls).pc = "idle")
    IN  IF failed = <<>> THEN d ELSE Warned(FALSE)

\* loadCoins once fetchAPI has given res
CoinsDone(res) ==
    IF res.threw
    THEN /\ toast' = "Load failed: " \o res.error
         /\ localStorage' = res.store
         /\ lc' = [pc |-> "idle"]
         /\ UNCHANGED <<coins, run, done>>
    ELSE LET cs == res.value
             ls == [res.store EXCEPT ![<<"coins">>] = JSONstringify(First(20, cs))]
             started == Spawned(cs, ls)
         IN  /\ Cardinality({s \in Slots : run[s].pc = "idle"}) >= Len(started)
             /\ coins' = cs
             /\ localStorage' = ls
             /\ run' = Place(run, started, 1)
             /\ toast' = ToastAfter(First(5, cs), 1, ls, Shown(res, toast))
             /\ done' = DoneAfter(First(5, cs), ls, done)
             /\ lc' = [pc |-> "idle"]

LoadCoinsStart ==
    /\ lc.pc = "idle"
    /\ IF online
       THEN /\ lc' = [pc |-> "net"]
            /\ UNCHANGED <<localStorage, toast, coins, run, done>>
       ELSE CoinsDone(fetchAPIOffline(localStorage, CoinsKey, now))
    /\ UNCHANGED <<online, now, news, senti, signals, fn, chart>>

\* the markets request comes back with one of the answers
LoadCoinsReturnFrom(answers) ==
    /\ lc.pc = "net"
    /\ \E r \in answers : CoinsDone(fetchAPIOnline(localStorage, CoinsKey, now, r))
    /\ UNCHANGED <<online, now, news, senti, signals, fn, chart>>

LoadCoinsReturn == LoadCoinsReturnFrom(MarketResponses)
LoadCoinsReturnOne == LoadCoinsReturnFrom(OneCoinResponses)

----------------------------------------------------------------------------
(* LOAD CHART and the click on a coin card.  chart.symbol is the text of    *)
(* #chartSymbol, chart.series the series that STATE.chart shows, and        *)
(* chart.loading the assets whose loadChart waits for its request.          *)

toUpperCase(symbol) == CASE symbol = "btc" -> "BTC" [] symbol = "eth" -> "ETH"

\* data.prices.map((p, i) => ({ time, open, high, low, close }))
Candles(data) ==
    [i \in DOMAIN data.prices |->
        LET p == Num(data.prices[i][2])
        IN  [time |-> Rat(data.prices[i][1], 1000),
             open |-> RatMul(p, Rat(99, 100)),
             high |-> RatMul(p, Rat(101, 100)),
             low |-> RatMul(p, Rat(98, 100)),
             close |-> p]]

\* loadChart once fetchAPI has given res, on the chart that STATE.chart is
\* by then; a throw leaves the chart without the series
ChartDone(ch, id, res) ==
    IF res.threw \/ ~HasPrices(res.value) THEN [ch EXCEPT !.loading = @ \ {id}]
    ELSE [ch EXCEPT !.loading = @ \ {id}, !.series = Append(@, Candles(res.value))]

\* card.onclick for the card of coins[i]: loadChart(id), then
\* generateSignal(coin), each up to its first wait.  Offline both take their
\* price data from the cache at once.
Click(i) ==
    /\ i \in DOMAIN coins
    /\ coins[i].id \notin chart.loading
    /\ LET coin == coins[i]
           fresh == [symbol |-> toUpperCase(coin.symbol), series |-> <<>>,
                     loading |-> chart.loading]
           started == Spawned(<<coin>>, localStorage)
       IN  /\ Cardinality({s \in Slots : run[s].pc = "idle"}) >= Len(started)
           /\ run' = Place(run, started, 1)
           /\ IF online
              THEN /\ chart' = [fresh EXCEPT !.loading = @ \cup {coin.id}]
                   /\ UNCHANGED <<toast, done>>
              ELSE LET res == fetchAPIOffline(localStorage, ChartKey(coin.id), now)
                   IN  /\ chart' = ChartDone(fresh, coin.id, res)
                       /\ toast' = ToastAfter(<<coin>>, 1, localStorage, Shown(res, toast))
                       /\ done' = DoneAfter(<<coin>>, localStorage, done)
    /\ UNCHANGED <<online, now, localStorage, news, senti, coins, signals, lc, fn>>

ClickCard == \E i \in DOMAIN coins : Click(i)

\* the request of loadChart(id) comes back with r
LoadChartReturn(id, r) ==
    /\ id \in chart.loading
    /\ LET res == fetchAPIOnline(localStorage, ChartKey(id), now, r)
       IN  /\ localStorage' = res.store
           /\ toast' = Shown(res, toast)
           /\ chart' = ChartDone(chart, id, res)
    /\ UNCHANGED <<online, now, news, senti, coins, signals, lc, run, fn, done>>

ChartReturn == \E id \in chart.loading : \E r \in CandleResponses : LoadChartReturn(id, r)

----------------------------------------------------------------------------
(* The state after the script has loaded, with an empty localStorage *)

CoinIds == {"bitcoin", "ethereum"}
CacheKeys == {NewsKey, FngKey, GasKey, CoinsKey} \cup {ChartKey(id) : id \in CoinIds}
StorageKeys ==
    {DataKey(k) : k \in CacheKeys} \cup {MetaKey(k) : k \in CacheKeys} \cup {<<"coins">>}

\* everything but fn
InitProgram ==
    /\ online \in BOOLEAN
    /\ now = 0
    /\ localStorage = [k \in StorageKeys |-> null]
    /\ toast = ""
    /\ news = [pc |-> "idle", got |-> NoResult]
    /\ senti = [pc |-> "idle"]
    /\ coins = <<>>
    /\ signals = [id \in CoinIds |-> undefined]
    /\ lc = [pc |-> "idle"]
    /\ run = [s \in Slots |-> IdleRun]
    /\ done = NoneDone
    /\ chart = [symbol |-> "", series |-> <<>>, loading |-> {}]

Init == InitProgram /\ fn = [op |-> "none"]

\* the feeds beside the pipeline: loadNews and loadSentiment over fetchAPI
\* and the cache, with the clock running
NextFetch ==
    \/ Tick
    \/ SetOnline
    \/ LoadNewsStart
    \/ LoadNewsReturn
    \/ LoadSentimentStart
    \/ LoadSentimentFngReturn
    \/ LoadSentimentGasReturn

SpecFetch == Init /\ [][NextFetch]_vars

\* the signal pipeline.  The clock stands still here: an entry older than the
\* TTL reads as no entry (SpecFetch), and the pipeline meets "no entry" with
\* the empty cache it starts from.
Next ==
    \/ SetOnline
    \/ LoadCoinsStart
    \/ LoadCoinsReturn
    \/ RunPricesReturn
    \/ RunAdvisoryReturn

Spec == Init /\ [][Next]_vars

\* the same with a few of the advisory answers
NextCore ==
    \/ SetOnline
    \/ LoadCoinsStart
    \/ LoadCoinsReturn
    \/ RunPricesReturn
    \/ CoreAdvisoryReturn

SpecCore == Init /\ [][NextCore]_vars

\* the same where the markets API lists one coin, so that with MaxRuns calls
\* in flight a refresh cycle can start before the calls of the one before
\* have ended
NextCycle ==
    \/ SetOnline
    \/ LoadCoinsStart
    \/ LoadCoinsReturnOne
    \/ RunPricesReturn
    \/ CoreAdvisoryReturn

SpecCycle == Init /\ [][NextCycle]_vars

\* the refresh cycles over the one-coin market with the clock running, so
\* that the price data a cycle has cached is too old for a later one; the
\* connectivity stays as it is at the start
NextStale ==
    \/ Expire
    \/ LoadCoinsStart
    \/ LoadCoinsReturnOne
    \/ RunPricesReturn
    \/ CoreAdvisoryReturn

SpecStale == Init /\ [][NextStale]_vars

\* the refresh cycles and the clicks on the coin cards
NextClick ==
    \/ SetOnline
    \/ LoadCoinsStart
    \/ LoadCoinsReturnOne
    \/ RunPricesReturn
    \/ CoreAdvisoryReturn
    \/ ClickCard
    \/ ChartReturn

SpecClick == Init /\ [][NextClick]_vars

\* a request that would wait for ever for its answer: fetch with no
\* AbortSignal puts no bound on the advisory request of the call in slot s
Settles_NoTimeout(s) == WF_vars(\E r \in ChartResponses : PricesReturn(s, r))

\* signal: AbortSignal.timeout(5000) on both requests of generateSignal: the
\* request of the call in slot s is answered, or rejected for the timeout,
\* within five seconds, so a call that waits for its answer gets one
Settles(s) ==
    /\ WF_vars(\E r \in ChartResponses : PricesReturn(s, r))
    /\ WF_vars(\E r \in CoreAIResponses : AdvisoryReturn(s, r))

\* the refresh cycles over the one-coin market, every request settling
SpecLive == Init /\ [][NextCycle]_vars /\ \A s \in Slots : Settles(s)

----------------------------------------------------------------------------
(* localSignal as a function of rsi and the current price: fn holds the    *)
(* arguments and, once applied, the result.                                *)

\* rsi from 0 to 100 in tenths
RsiInputs == {Rat(k, 10) : k \in 0..1000}
PriceInputs == {Num(100), Num(250), Rat(1, 3)}

\* calculateRSI over every series of up to MaxLen prices out of Levels, with
\* a short period
MaxLen == 5
Levels == {Num(0), Num(1), Num(2), Num(5)}
ShortPeriods == {2, 3}
ShortSeries == UNION {[1..n -> Levels] : n \in 1..MaxLen}

\* and with the period of calculateIndicators over longer series: prices
\* that go by step from base, the same with the k-th price at 0, and prices
\* that go between two levels
LongLens == {1, 13, 14, 15, 16, 20}
Ramp(n, base, step) == [i \in 1..n |-> Num(base + step * (i - 1))]
Dip(n, base, step, k) == [i \in 1..n |-> IF i = k THEN Num(0) ELSE Num(base + step * (i - 1))]
Zig(n, a, b) == [i \in 1..n |-> IF i % 2 = 1 THEN Num(a) ELSE Num(b)]
LongSeries ==
    {Ramp(n, base, step) : n \in LongLens, base \in {0, 60}, step \in {0, 1, 3}}
    \cup {Ramp(n, 60, -3) : n \in LongLens}
    \cup {Dip(n, 60, 1, k) : n \in LongLens, k \in {1, 2, 3, 10, 20}}
    \cup {Zig(n, a, b) : n \in LongLens, a \in {0, 7}, b \in {0, 4, 9}}

\* calculateIndicators over series that are level at 400 up to their last
\* two prices.  The averages of calculateEMA are fractions over powers of 13
\* and of 27: with the price before the last 351 = 13 * 27 away from the
\* level, or on it, they stay within the integers that TLC has.
TailLens == {1, 2, 11, 12, 13, 15, 25, 26, 27, 30}
BeforeLast == {49, 400, 751}
Last == {49, 387, 400, 751, 800}
Level(n, a, b) ==
    [i \in 1..n |-> IF i = n THEN Num(b) ELSE IF i = n - 1 THEN Num(a) ELSE Num(400)]
TailSeries == {Level(n, a, b) : n \in TailLens, a \in BeforeLast, b \in Last}

InitPure ==
    /\ InitProgram
    /\ \/ fn \in [op : {"localSignal"}, rsi : RsiInputs, price : PriceInputs,
                  done : {FALSE}, out : {undefined}]
       \/ fn \in [op : {"calculateRSI"}, prices : ShortSeries, period : ShortPeriods,
                  done : {FALSE}, out : {undefined}]
       \/ fn \in [op : {"calculateRSI"}, prices : LongSeries, period : {RSIPeriod},
                  done : {FALSE}, out : {undefined}]
       \/ fn \in [op : {"calculateIndicators"}, prices : TailSeries,
                  done : {FALSE}, out : {undefined}]

ApplyLocalSignal ==
    /\ fn.op = "localSignal"
    /\ ~fn.done
    /\ fn' = [fn EXCEPT !.done = TRUE,
                        !.out = localSignal([Bitcoin EXCEPT !.current_price = fn.price],
                                            [rsi |-> fn.rsi])]
    /\ UNCHANGED <<online, now, localStorage, toast, news, senti, coins, signals, lc, run, done, chart>>

ApplyRSI ==
    /\ fn.op = "calculateRSI"
    /\ ~fn.done
    /\ fn' = [fn EXCEPT !.done = TRUE, !.out = calculateRSI(fn.prices, fn.period)]
    /\ UNCHANGED <<online, now, localStorage, toast, news, senti, coins, signals, lc, run, done, chart>>

\* generateSignal from the prices on, for bitcoin, where callAI has no
\* answer: the indicators, the prompt that callAI sends, and the entry that
\* is stored
ApplyIndicators ==
    /\ fn.op = "calculateIndicators"
    /\ ~fn.done
    /\ LET ind == calculateIndicators(fn.prices)
       IN  fn' = [fn EXCEPT !.done = TRUE,
                            !.out = [ind |-> ind,
                                     prompt |-> Prompt(Bitcoin, ind),
                                     stored |-> WithSymbol(Fused(Bitcoin, ind, callAI(Rejected)),
                                                           Bitcoin)]]
    /\ UNCHANGED <<online, now, localStorage, toast, news, senti, coins, signals, lc, run, done, chart>>

NextPure ==
    \/ ApplyLocalSignal
    \/ ApplyRSI
    \/ ApplyIndicators

SpecPure == InitPure /\ [][NextPure]_vars

----------------------------------------------------------------------------
(* Claims about the cache and fetchAPI, checked under SpecFetch *)

\* localStorage holds both items of key k
HasEntry(ls, k) == ls[DataKey(k)] # null /\ ls[MetaKey(k)] # null
EntryValue(ls, k) == JSONparse(ls[DataKey(k)])
EntryStoredAt(ls, k) == JSONparse(ls[MetaKey(k)]).t

\* the last fetchAPI of loadNews ended on the offline branch or in the catch
Degraded(got) == got.path \in {"offline", "fallback"}

\* C1, as claimed: a fetchAPI that ran offline or whose network call failed
\* returned the cached value whenever an entry exists for its key, however
\* old, and threw only when no entry exists.  Stated for an entry that holds
\* an object; an entry that holds null (a falsy payload) is refused by the
\* `if (c)` of fetchAPI at any age.  (The entry of 'news' is written by
\* loadNews alone, so it is still the one that call saw.)
C1_AsClaimed ==
    Degraded(news.got) =>
        IF HasEntry(localStorage, NewsKey)
        THEN Truthy(EntryValue(localStorage, NewsKey)) =>
                /\ ~news.got.threw
                /\ news.got.value = EntryValue(localStorage, NewsKey)
        ELSE news.got.threw

\* C2: after cache.set(k, v) at time storedAt, cache.get(k) at any later
\* instant t gives exactly v while t - storedAt <= 60000 and null afterwards;
\* the entry is that of the latest set, with storedAt the time of that set.
C2_RoundTrip ==
    news.got.path = "network" =>
        /\ HasEntry(localStorage, NewsKey)
        /\ EntryStoredAt(localStorage, NewsKey) = news.got.at
        /\ \A t \in Instants :
              t >= news.got.at =>
                 cacheGet(localStorage, NewsKey, t)
                    = IF t - news.got.at <= 60000 THEN news.got.value ELSE null

\* C2's case: a value was stored, the TTL has passed, and get gives null
C2_Witness ==
    /\ news.got.path = "network"
    /\ news.got.value = News1
    /\ now - news.got.at > 60000
    /\ cacheGet(localStorage, NewsKey, now) = null
    /\ cacheGet(localStorage, NewsKey, news.got.at + 60000) = News1

\* a step in which a fetchAPI of loadNews ends
NewsFetchEnds == news' # news /\ news'.pc = "idle"

\* C3: a fetchAPI that ends offline or in the catch leaves localStorage as it
\* was; one that ends with a successful network call sets the two items of
\* its own key to the payload it returns and to the time of the call, and
\* changes nothing else.  The fetches of loadSentiment change no item of
\* another key than 'fng' and 'gas'.
C3_Frame ==
    [][ /\ NewsFetchEnds =>
             IF news'.got.path = "network"
             THEN /\ ~news'.got.threw
                  /\ localStorage' =
                        [localStorage EXCEPT
                            ![DataKey(NewsKey)] = JSONstringify(news'.got.value),
                            ![MetaKey(NewsKey)] = JSONstringify([t |-> now])]
             ELSE localStorage' = localStorage
        /\ senti' # senti =>
             \A k \in StorageKeys \ {DataKey(FngKey), MetaKey(FngKey),
                                     DataKey(GasKey), MetaKey(GasKey)} :
                 localStorage'[k] = localStorage[k]
      ]_vars

\* C3's case: a failed network call fell back to the cache, with entries of
\* several keys in the store
C3_Witness ==
    /\ news.got.path = "fallback"
    /\ ~news.got.threw
    /\ HasEntry(localStorage, NewsKey)
    /\ HasEntry(localStorage, FngKey)
    /\ HasEntry(localStorage, GasKey)

\* what a successful network call can return for 'news'
FreshNews == {JSONparse(r.body) : r \in {x \in NewsResponses : ~x.rejected /\ Ok(x) /\ IsJSON(x.body)}}

\* C4, as claimed: a result that fetchAPI returned from the cache is one the
\* caller can tell from any result of a successful network call
C4_AsClaimed ==
    (Degraded(news.got) /\ ~news.got.threw) => news.got.value \notin FreshNews

----------------------------------------------------------------------------
(* Claims about the local rule, checked under SpecPure *)

\* C5: for every rsi and price the local rule gives Buy below 30, Sell above
\* 70, else Hold (30 and 70 included); confidence 75 for Buy and Sell, 50
\* for Hold; entry = price, stop-loss = 0.99 price, take-profit = 1.02 price
\* for Buy and 0.98 price for Sell and Hold.
C5_LocalRule ==
    (fn.op = "localSignal" /\ fn.done) =>
        LET buy == fn.rsi.n < 30 * fn.rsi.d
            sell == fn.rsi.n > 70 * fn.rsi.d
            p == fn.price
            out == fn.out
            times(x, k) == out[x].n * 100 * p.d = k * p.n * out[x].d
        IN  /\ out.decision = (IF buy THEN "Buy" ELSE IF sell THEN "Sell" ELSE "Hold")
            /\ out.confidence = (IF buy \/ sell THEN Num(75) ELSE Num(50))
            /\ out.entry_price = p
            /\ times("stoploss", 99)
            /\ times("take_profit", IF buy THEN 102 ELSE 98)

\* C5's case: the rule applied at rsi = 30 exactly gives Hold with confidence 50
C5_Witness ==
    /\ fn.op = "localSignal" /\ fn.done
    /\ fn.rsi = Num(30)
    /\ fn.out.decision = "Hold" /\ fn.out.confidence = Num(50)
    /\ fn.out.take_profit = RatMul(fn.price, Rat(98, 100))

----------------------------------------------------------------------------
(* Claims about the pipeline, checked under Spec *)

RequiredFields == {"decision", "confidence", "entry", "stoploss"}

\* the answers that carry a structurally valid advisory (a well-formed block
\* with the four required fields, the first one of the reply), with its fields
Advisory(decision, confidence) ==
    [decision |-> decision, confidence |-> Num(confidence), entry |-> Num(101),
     stoploss |-> Num(99)]
Carried ==
    (Generated(ReplyValid) :> Advisory("Buy", 90))
    @@ (Generated(ReplyRange) :> Advisory("Maybe", 150))
    @@ (Generated(ReplyTwo) :> Advisory("Sell", 60))
    @@ (Generated(Reply80) :> Advisory("Hold", 80))

\* the answers with no advisory in them: no response, a non-success status,
\* a body or reply without a block, a block that is not well-formed, a
\* well-formed block without the required fields
NoAdvisory ==
    {Rejected, RateLimited, Response(503, NotJSON), Response(200, NotJSON),
     Response(200, JSONstringify(<<>>)), Generated(ReplyNoBlock), Generated(ReplyBroken),
     Generated(ReplyNoFields), Generated(ReplyQuoted)}

\* the entry the local rule gives for the call rec
LocalEntry(rec) == WithSymbol(localSignal(rec.coin, rec.ind), rec.coin)

\* C6, as claimed: when the advisory request of a call comes back, the
\* entry stored for its asset carries exactly the fields of the advisory if
\* the answer holds a structurally valid one, and is the local rule's signal
\* if and only if it holds none.
C6_AsClaimed ==
    [][\A s \in Slots : \A r \in AIResponses :
          AdvisoryReturn(s, r) =>
             LET stored == signals'[run[s].coin.id]
             IN  IF r \in DOMAIN Carried
                 THEN /\ \A f \in RequiredFields :
                            f \in DOMAIN stored /\ stored[f] = Carried[r][f]
                      /\ stored # LocalEntry(run[s])
                 ELSE stored = LocalEntry(run[s])
      ]_vars

\* C7, as claimed: an answer with no advisory in it (malformed, non-success,
\* no response) leaves the local rule's signal in the store.
C7_AsClaimed ==
    [][\A s \in Slots : \A r \in NoAdvisory :
          AdvisoryReturn(s, r) => signals'[run[s].coin.id] = LocalEntry(run[s])
      ]_vars

\* C8: a call has sent one advisory request while it waits for the answer;
\* the answer ends the call, so no second request follows; on a 429 the
\* toast shows 'AI rate limited' and the local rule's signal is stored.
C8_NoRetry ==
    [][\A s \in Slots :
          run[s].pc = "ai" =>
             /\ run[s].sent = 1
             /\ run'[s].pc = "ai" => run'[s].sent = 1
             /\ AdvisoryReturn(s, RateLimited) =>
                   /\ run'[s].pc = "idle"
                   /\ toast' = "AI rate limited"
                   /\ signals'[run[s].coin.id] = LocalEntry(run[s])
      ]_vars

\* C8's case: a 429 has been answered, the local signal is in the store and
\* no call is in flight
C8_Witness ==
    /\ toast = "AI rate limited"
    /\ signals["bitcoin"] = WithSymbol(localSignal(Bitcoin, calculateIndicators(Prices(Falling))), Bitcoin)
    /\ \A s \in Slots : run[s].pc = "idle"

\* C9, as claimed: every stored signal has a decision among Buy, Sell, Hold
\* and an integer confidence in 0..100.
C9_AsClaimed ==
    \A id \in CoinIds :
        signals[id] # undefined =>
            /\ "decision" \in DOMAIN signals[id]
            /\ signals[id].decision \in {"Buy", "Sell", "Hold"}
            /\ "confidence" \in DOMAIN signals[id]
            /\ signals[id].confidence.d = 1
            /\ signals[id].confidence.n \in 0..100

SymbolOf(id) == IF id = "bitcoin" THEN "btc" ELSE "eth"

\* C10: the store step of a call for one asset leaves the other asset's
\* entry as it was; an entry changes only in the store step of a call for
\* its own asset, to the signal that call fused; and an entry always bears
\* the symbol of its own asset.
C10_NoCrossWrite ==
    /\ [](\A id \in CoinIds : signals[id] # undefined => signals[id].symbol = SymbolOf(id))
    /\ [][\A id \in CoinIds :
             /\ \A s \in Slots :
                   (run[s].pc = "ai" /\ run[s].coin.id # id /\ run'[s].pc = "idle")
                      => signals'[id] = signals[id]
             /\ signals'[id] # signals[id] =>
                   \E s \in Slots :
                      /\ run[s].pc = "ai" /\ run[s].coin.id = id /\ run'[s].pc = "idle"
                      /\ \E r \in AIResponses :
                            signals'[id] = WithSymbol(Fused(run[s].coin, run[s].ind, Advice[r]),
                                                      run[s].coin)
       ]_vars

\* C10's case: the call for bitcoin has stored its signal while the call for
\* ethereum, started with it, is still waiting for its advisory
C10_Witness ==
    /\ signals["bitcoin"] # undefined
    /\ signals["ethereum"] = undefined
    /\ \E s \in Slots : run[s].pc = "ai" /\ run[s].coin.id = "ethereum"

----------------------------------------------------------------------------
(* Claims about calls for the same asset in flight together, checked under *)
(* SpecCycle                                                               *)

\* C11: whichever calls are in flight and in whatever order they started,
\* the step in which a call gets its advisory answer sets the entry of its
\* asset to the signal that call fused, whatever the entry was, and leaves
\* the other entries alone; no other step changes the store.  So the entry
\* is always the signal of the call that ended last.
C11_LastWriteWins ==
    [][/\ \A s \in Slots : \A r \in AIResponses :
             AdvisoryReturn(s, r) =>
                signals' = [signals EXCEPT ![run[s].coin.id] =
                               WithSymbol(Fused(run[s].coin, run[s].ind, Advice[r]), run[s].coin)]
       /\ (\A s \in Slots : ~(run[s].pc = "ai" /\ run'[s].pc = "idle")) => signals' = signals
      ]_vars

\* C11's case: all calls have ended; the one that ended last had started
\* before another call for the same asset, which stored while it was in
\* flight; it stored in its turn, and the entry is its signal (the local
\* one), not the one stored before
C11_Witness ==
    /\ \A s \in Slots : run[s].pc = "idle"
    /\ done.overtaken
    /\ done.effects = <<"set", "render">>
    /\ signals["bitcoin"] = WithSymbol(localSignal(Bitcoin, Indicators[Falling]), Bitcoin)

----------------------------------------------------------------------------
(* Claims about alerts *)

\* the call in slot s ends in this step with its advisory answer
Stores(s) == run[s].pc = "ai" /\ run'[s].pc = "idle"

Emits(effects, e) == \E i \in DOMAIN effects : effects[i] = e

\* a stored signal with a confidence above 80
Above80(sig) ==
    /\ "confidence" \in DOMAIN sig
    /\ ~IsText(sig.confidence)
    /\ sig.confidence.n > 80 * sig.confidence.d

\* C12, as claimed: a call emits an alert if and only if the signal it
\* stored has confidence > 80, and the alert comes after the write.
C12_AsClaimed ==
    [][\A s \in Slots :
          Stores(s) =>
             /\ Emits(done'.effects, "alert") <=> Above80(signals'[run[s].coin.id])
             /\ \A i \in DOMAIN done'.effects :
                   done'.effects[i] = "alert" => \E j \in 1..(i - 1) : done'.effects[j] = "set"
      ]_vars

----------------------------------------------------------------------------
(* Claims about failures *)

\* the call in slot s ends in this step in the catch of generateSignal
Fails(s) == run[s].pc # "idle" /\ run'[s].pc = "idle" /\ Emits(done'.effects, "warn")

\* the call of record a is where the call of record b is: same step, same
\* coin, same indicators
SameCall(a, b) ==
    /\ a.pc = b.pc
    /\ a.pc # "idle" => a.coin = b.coin
    /\ a.pc = "ai" => a.ind = b.ind /\ a.sent = b.sent

----------------------------------------------------------------------------
(* Claims about termination *)

\* fetchAPI in the call of slot s finds usable price data in the cache
CachedPrices(s) == ~StartFetch(run[s].coin, localStorage).threw

\* C14: a request that times out is a failed request (the price data then
\* comes from the cache or the call ends in the catch; the signal then comes
\* from the local rule), and every call of generateSignal that is in flight
\* ends, none waits for ever: at any time, the slot of a call is free again
\* at some later time.
C14_Terminates ==
    /\ \A s \in Slots : []<>(run[s].pc = "idle")
    /\ [][\A s \in Slots :
             /\ PricesReturn(s, Rejected) =>
                   IF CachedPrices(s)
                   THEN /\ run'[s].pc = "ai"
                        /\ run'[s].ind = IndicatorsOf(StartFetch(run[s].coin, localStorage).value)
                   ELSE Fails(s) /\ signals' = signals
             /\ AdvisoryReturn(s, Rejected) =>
                   Stores(s) /\ signals'[run[s].coin.id] = LocalEntry(run[s])
         ]_vars

\* a call whose advisory request was rejected has ended with the signal of
\* the local rule
C14_Witness ==
    /\ \A s \in Slots : run[s].pc = "idle"
    /\ toast = ""
    /\ done.effects = <<"set", "render">>
    /\ signals["bitcoin"] = WithSymbol(localSignal(Bitcoin, Indicators[Falling]), Bitcoin)

----------------------------------------------------------------------------
(* Claims about the indicators *)

Computed(op) == fn.op = op /\ fn.done

\* 0 <= x <= 100
InRange(x) == ~RatLt(x, Num(0)) /\ ~RatLt(Num(100), x)

\* none of the last period changes of prices is a fall
NoFall(prices, period) ==
    \A i \in (Len(prices) - period + 1)..Len(prices) : ~RatLt(prices[i], prices[i - 1])

\* C15: calculateRSI of a non-empty series of non-negative prices is between
\* 0 and 100, and is exactly 50 when the series has no more prices than
\* period.
C15_RSIRange ==
    /\ Computed("calculateRSI") =>
          /\ InRange(fn.out)
          /\ Len(fn.prices) <= fn.period => fn.out = Num(50)
    /\ Computed("calculateIndicators") =>
          /\ InRange(fn.out.ind.rsi)
          /\ Len(fn.prices) <= RSIPeriod => fn.out.ind.rsi = Num(50)

\* a series of exactly period prices that rise and fall, with RSI 50
C15_Witness ==
    /\ Computed("calculateRSI")
    /\ fn.period = RSIPeriod
    /\ Len(fn.prices) = RSIPeriod
    /\ fn.prices[1] # fn.prices[2]
    /\ fn.out = Num(50)

\* C16: for a series of at least period + 1 prices whose last period changes
\* are none of them a fall, a level series among them, calculateRSI is 100;
\* and with no advisory the entry stored for such a series is Sell with
\* confidence 75.
C16_Saturates ==
    /\ (Computed("calculateRSI") /\ Len(fn.prices) >= fn.period + 1
            /\ NoFall(fn.prices, fn.period)) =>
          fn.out = Num(100)
    /\ (Computed("calculateIndicators") /\ Len(fn.prices) >= RSIPeriod + 1
            /\ NoFall(fn.prices, RSIPeriod)) =>
          /\ fn.out.ind.rsi = Num(100)
          /\ fn.out.stored.decision = "Sell"
          /\ fn.out.stored.confidence = Num(75)

\* a series that is level and then rises twice: Sell with confidence 75 is
\* stored
C16_Witness ==
    /\ Computed("calculateIndicators")
    /\ Len(fn.prices) = 30
    /\ RatLt(fn.prices[1], fn.prices[29])
    /\ RatLt(fn.prices[29], fn.prices[30])
    /\ fn.out.stored.decision = "Sell"
    /\ fn.out.stored.confidence = Num(75)

\* C17: for a non-empty series the histogram of calculateMACD is exactly 0,
\* and 0 is what the prompt of the advisory request carries as macd.
C17_Histogram ==
    Computed("calculateIndicators") =>
        /\ fn.out.ind.macd.histogram = Num(0)
        /\ fn.out.prompt.data.macd = Num(0)

\* a series long enough for both averages, which differ
C17_Witness ==
    /\ Computed("calculateIndicators")
    /\ Len(fn.prices) >= 26
    /\ calculateEMA(fn.prices, 12) # calculateEMA(fn.prices, 26)
    /\ fn.out.ind.macd.histogram = Num(0)

----------------------------------------------------------------------------
(* Claims about what a failed call leaves behind *)

\* C18: when the price request of a call fails and the cache has no usable
\* price data, the call ends there: it sends no advisory request, emits no
\* alert and leaves every entry of the signal store as it was.
C18_NoTrace ==
    [][\A s \in Slots :
          /\ (PricesReturn(s, Rejected) /\ ~CachedPrices(s)) =>
                /\ run'[s].pc = "idle"
                /\ signals' = signals
                /\ done'.effects = <<"warn">>
          /\ (run[s].pc = "net" /\ run'[s].pc = "idle") =>
                /\ signals' = signals
                /\ ~Emits(done'.effects, "alert")
      ]_vars

\* the call of a later cycle has failed on price data that is too old by
\* then, and the signal of an earlier cycle is still in the store
C18_Witness ==
    /\ \A s \in Slots : run[s].pc = "idle"
    /\ now > CACHE_TTL
    /\ done.effects = <<"warn">>
    /\ signals["bitcoin"] # undefined

\* C19: a call that falls back to the local rule stores confidence 50 or 75
\* and emits no alert; a call that emits an alert has adopted the answer of
\* the advisory model; and no other step emits one.
C19_LocalIsQuiet ==
    [][/\ \A s \in Slots :
             Stores(s) =>
                LET entry == signals'[run[s].coin.id]
                    adopted == \E r \in AIResponses :
                                  /\ Truthy(Advice[r].signal)
                                  /\ entry = WithSymbol(Advice[r].signal, run[s].coin)
                IN  /\ entry = LocalEntry(run[s]) \/ adopted
                    /\ entry = LocalEntry(run[s]) =>
                          /\ entry.confidence \in {Num(50), Num(75)}
                          /\ ~Emits(done'.effects, "alert")
                    /\ Emits(done'.effects, "alert") => adopted
       /\ (\A s \in Slots : ~Stores(s)) =>
             (Emits(done'.effects, "alert") => done' = done)
      ]_vars

\* the only call so far has stored the signal of the local rule, with
\* confidence 75, and has emitted no alert
C19_Witness ==
    /\ \A s \in Slots \ {1} : run[s].pc = "net"
    /\ run[1].pc = "idle"
    /\ signals["ethereum"] = undefined
    /\ signals["bitcoin"] = WithSymbol(localSignal(Bitcoin, Indicators[Falling]), Bitcoin)
    /\ signals["bitcoin"].confidence = Num(75)
    /\ done.effects = <<"set", "render">>

----------------------------------------------------------------------------
(* Claims about the cache keys *)

\* C20, as claimed: the price data that fetchAPI gives a call of
\* generateSignal from the cache, under chart_<id>, is data that a request
\* of generateSignal has stored there: price history at its own granularity.
C20_AsClaimed ==
    [][\A s \in Slots :
          /\ (PricesReturn(s, Rejected) /\ CachedPrices(s)) =>
                StartFetch(run[s].coin, localStorage).value \in ChartPayloads
          /\ (run[s].pc = "idle" /\ run'[s].pc = "ai") =>
                StartFetch(run'[s].coin, localStorage).value \in ChartPayloads
      ]_vars

====
